---- MODULE Spec2Model ----
(***************************************************************************)
(* Model of sdx.privacy.deidenitfier: the Deidentifier class (recognizer   *)
(* registry extension, analysis, mask / hash de-identification).           *)
(*                                                                         *)
(* Texts are sequences of one-character strings; offsets are Python's      *)
(* (0-based, half-open [start, end)).  Scores are in hundredths: 100 is    *)
(* 1.0.  A regular expression is modelled by a literal it matches, scanned *)
(* the way re.finditer scans (leftmost, non-overlapping).                  *)
(***************************************************************************)
EXTENDS Integers, Sequences, FiniteSets, Bags, TLC

\* Longest text handed to analyze / deidentify.
MaxLen == 3

Chars == {"a", "b", "*"}

Texts == UNION {[1..n -> Chars] : n \in 0..MaxLen}

\* Regular expressions a caller registers (literals).
Patterns == {<<"a", "b">>, <<"*">>}

\* Regular expressions a caller registers that re.compile turns down.
Uncompilable == {<<"(">>}

\* re.compile(regex) raises nothing.
Compiles(regex) == regex \notin Uncompilable

\* score: float = 0.85
DefaultScore == 85

\* Scores a caller passes: -0.1, 0.0, 0.85, 1.0, 1.1.
Scores == {-10, 0, DefaultScore, 100, 110}

Languages == {"en", "es"}

EntityNames == {"ORDER_ID", "PERSON"}

Strategies == {"mask", "hash", "encrypt"}

\* type(rec) is PatternRecognizer, or a specialised / built-in recognizer class.
GenericPattern == "PatternRecognizer"
Specialized == "BuiltIn"

\* A recognizer object: its class, the entity it supports, its language,
\* the pattern it scans for and the score it reports.
Recognizer(kind, entity, lang, regex, score) ==
    [kind |-> kind, entity |-> entity, lang |-> lang, regex |-> regex, score |-> score]

\* The predefined recognizers the engine loads for a language.  They are not
\* generic PatternRecognizers; one emits PERSON, an entity name a caller may
\* also register a custom pattern for.
Predefined(lang) ==
    IF lang = "en"
    THEN {Recognizer(Specialized, "PERSON", "en", <<"b">>, 80),
          Recognizer(Specialized, "LOCATION", "en", <<"b", "*">>, 60)}
    ELSE {Recognizer(Specialized, "PERSON", lang, <<"a">>, 80)}

\* ------------------------------------------------------------------------
\* Sequence helpers (Python slicing on 0-based offsets).

\* text[lo:hi]
Slice(text, lo, hi) == SubSeq(text, lo + 1, hi)

\* '*' * n
Stars(n) == [i \in 1..n |-> "*"]

\* ------------------------------------------------------------------------
\* Recognizers at work.

\* re.finditer for a literal: the spans of its leftmost non-overlapping
\* occurrences from offset pos on.
RECURSIVE FindIter(_, _, _)
FindIter(text, regex, pos) ==
    IF pos + Len(regex) > Len(text) THEN {}
    ELSE IF Slice(text, pos, pos + Len(regex)) = regex
         THEN {<<pos, pos + Len(regex)>>} \cup FindIter(text, regex, pos + Len(regex))
         ELSE FindIter(text, regex, pos + 1)

\* A RecognizerResult.
Result(entity, start, end, score) ==
    [entity_type |-> entity, start |-> start, end |-> end, score |-> score]

\* One recognizer's results on a text: one per non-empty match, kept only
\* when its score is above the minimum score 0.
RecognizerAnalyze(rec, text) ==
    IF rec.score > 0
    THEN {Result(rec.entity, m[1], m[2], rec.score) : m \in FindIter(text, rec.regex, 0)}
    ELSE {}

\* ------------------------------------------------------------------------
\* Errors.  A raised exception is a record of what its message says.

NoError == [kind |-> "none", value |-> "", options |-> <<>>]

\* ValueError('Score must be between 0.0 and 1.0.')
ScoreError == [kind |-> "ValueError: Score must be between 0.0 and 1.0.",
               value |-> "", options |-> <<>>]

\* The registry's ValueError when no recognizer serves the language.
NoRecognizersError == [kind |-> "ValueError: No matching recognizers were found",
                       value |-> "", options |-> <<>>]

\* The error of a regular expression that does not compile: re.error when
\* a recognizer compiles its pattern, ValueError when Pattern checks it.
PatternCompileError == [kind |-> "invalid regular expression", value |-> "",
                        options |-> <<>>]

\* ValueError("Unsupported strategy: '<strategy>'. Available options are: mask, hash")
UnsupportedStrategyError(strategy, supported) ==
    [kind |-> "ValueError: Unsupported strategy", value |-> strategy, options |-> supported]

\* ------------------------------------------------------------------------
\* The registry: the bag of recognizer objects in analyzer.registry.recognizers
\* (get_recognizers hands them back as list(set(...)), so their order is not
\* kept and is not observable in the results, which are sorted).

\* entities: Optional[List[str]]. None is the empty tuple, a list the tuple
\* of the set of its entity names.
NoFilter == <<>>

EntityList(S) == <<S>>

\* all_fields = not entities: None and the empty list alike.
AllFields(entities) == entities = NoFilter \/ entities[1] = {}

\* registry.get_recognizers(language, entities, all_fields=not entities): the
\* recognizers whose supported_language is the language and, under a filter,
\* that support one of the entities.
GetRecognizers(reg, language, entities) ==
    LET dom == {r \in BagToSet(reg) :
                   r.lang = language /\ (AllFields(entities) \/ r.entity \in entities[1])}
    IN [r \in dom |-> reg[r]]

\* The sort key of EntityRecognizer.remove_duplicates:
\* (-score, start, -(end - start)).
KeyLeq(x, y) ==
    \/ x.score > y.score
    \/ x.score = y.score /\ x.start < y.start
    \/ x.score = y.score /\ x.start = y.start /\ (x.end - x.start) >= (y.end - y.start)

\* sorted(results, key=...) of a set of results; results equal on the key
\* (same span and score, another entity type) come in an arbitrary order
\* in Python too.
RECURSIVE SortResults(_)
SortResults(S) ==
    IF S = {} THEN <<>>
    ELSE LET m == CHOOSE x \in S : \A y \in S : KeyLeq(x, y)
         IN <<m>> \o SortResults(S \ {m})

\* result.contained_in(other)
ContainedIn(r, other) == r.start >= other.start /\ r.end <= other.end

\* EntityRecognizer.remove_duplicates on the sorted list: a result is dropped
\* when its score is 0 or a result already kept, of the same entity type,
\* contains it.
RECURSIVE RemoveDuplicates(_, _)
RemoveDuplicates(sorted, kept) ==
    IF sorted = <<>> THEN kept
    ELSE LET r == Head(sorted)
             drop == \/ r.score = 0
                     \/ \E i \in 1..Len(kept) :
                            ContainedIn(r, kept[i]) /\ r.entity_type = kept[i].entity_type
         IN RemoveDuplicates(Tail(sorted), IF drop THEN kept ELSE Append(kept, r))

\* Deidentifier.analyze(text, entities, language): every recognizer the
\* registry hands back runs; the results are deduplicated.  The registry
\* raises when no recognizer serves the request.
Analyze(reg, text, entities, language) ==
    LET recs == BagToSet(GetRecognizers(reg, language, entities))
        raw == UNION {RecognizerAnalyze(r, text) : r \in recs}
    IN IF recs = {}
       THEN [error |-> NoRecognizersError, results |-> <<>>]
       ELSE IF \E r \in recs : ~Compiles(r.regex)
       THEN [error |-> PatternCompileError, results |-> <<>>]
       ELSE [error |-> NoError, results |-> RemoveDuplicates(SortResults(raw), <<>>)]

\* ------------------------------------------------------------------------
\* The mask strategy.

\* Faulty variant of SortByEndDesc: the results in the order analyze gave.
SortByEndNot(results) == results

\* sorted(analyzer_results, key=lambda x: x.end, reverse=True): a stable
\* sort, so results with equal ends keep their order.
RECURSIVE SortByEndDesc(_)
SortByEndDesc(results) ==
    IF results = <<>> THEN <<>>
    ELSE LET rest == SortByEndDesc(SubSeq(results, 1, Len(results) - 1))
             r == results[Len(results)]
             before == SelectSeq(rest, LAMBDA x : x.end >= r.end)
             after == SelectSeq(rest, LAMBDA x : x.end < r.end)
         IN before \o <<r>> \o after

\* Faulty variant of MaskOf: one placeholder whatever the span's length.
MaskOfOneStar(res) == <<"*">>

\* '*' * (res.end - res.start)
MaskOf(res) == Stars(res.end - res.start)

\* Faulty variant of MaskSplice: the spliced text is not kept.
MaskSpliceDropped(text, res) == text

\* anonymized_text[:res.start] + '*' * (res.end - res.start)
\*     + anonymized_text[res.end:]
MaskSplice(text, res) ==
    Slice(text, 0, res.start) \o MaskOf(res) \o Slice(text, res.end, Len(text))

\* The loop over sorted_results.
RECURSIVE MaskLoop(_, _)
MaskLoop(text, sorted) ==
    IF sorted = <<>> THEN text
    ELSE MaskLoop(MaskSplice(text, Head(sorted)), Tail(sorted))

Mask(text, results) == MaskLoop(text, SortByEndDesc(results))

\* ------------------------------------------------------------------------
\* The hash strategy: OperatorConfig('hash', {'hash_type': 'sha256'}).

\* hashlib.sha256(span).hexdigest() of the spans a recognizer of this model
\* can match (the texts over Chars of one or two characters), as the digests
\* SHA-256 gives: 64 hexadecimal characters each.
Sha256Hex(span) ==
    CASE span = <<"a">> ->
           <<"c","a","9","7","8","1","1","2","c","a","1","b","b","d","c","a","f","a","c","2","3",
           "1","b","3","9","a","2","3","d","c","4","d","a","7","8","6","e","f","f","8","1","4","7",
           "c","4","e","7","2","b","9","8","0","7","7","8","5","a","f","e","e","4","8","b","b">>
      [] span = <<"b">> ->
           <<"3","e","2","3","e","8","1","6","0","0","3","9","5","9","4","a","3","3","8","9","4",
           "f","6","5","6","4","e","1","b","1","3","4","8","b","b","d","7","a","0","0","8","8","d",
           "4","2","c","4","a","c","b","7","3","e","e","a","e","d","5","9","c","0","0","9","d">>
      [] span = <<"*">> ->
           <<"6","8","4","8","8","8","c","0","e","b","b","1","7","f","3","7","4","2","9","8","b",
           "6","5","e","e","2","8","0","7","5","2","6","c","0","6","6","0","9","4","c","7","0","1",
           "b","c","c","7","e","b","b","e","1","c","1","0","9","5","f","4","9","4","f","c","1">>
      [] span = <<"a", "a">> ->
           <<"9","6","1","b","6","d","d","3","e","d","e","3","c","b","8","e","c","b","a","a","c",
           "b","d","6","8","d","e","0","4","0","c","d","7","8","e","b","2","e","d","5","8","8","9",
           "1","3","0","c","c","e","b","4","c","4","9","2","6","8","e","a","4","d","5","0","6">>
      [] span = <<"a", "b">> ->
           <<"f","b","8","e","2","0","f","c","2","e","4","c","3","f","2","4","8","c","6","0","c",
           "3","9","b","d","6","5","2","f","3","c","1","3","4","7","2","9","8","b","b","9","7","7",
           "b","8","b","4","d","5","9","0","3","b","8","5","0","5","5","6","2","0","6","0","3">>
      [] span = <<"a", "*">> ->
           <<"a","4","a","8","7","d","3","1","e","d","1","8","3","b","2","7","c","c","7","b","3",
           "c","6","b","2","1","e","e","8","3","3","3","a","2","0","6","1","5","1","7","c","d","7",
           "2","e","4","1","f","4","1","f","7","3","f","1","c","f","6","e","f","5","5","c","e">>
      [] span = <<"b", "a">> ->
           <<"9","7","0","f","5","1","9","c","2","c","a","d","b","c","e","f","b","1","e","8","1",
           "6","9","4","f","9","0","4","b","c","6","2","2","9","d","d","2","a","8","3","0","0","e",
           "9","8","c","6","d","0","d","4","f","c","4","b","f","c","a","5","8","4","1","4","0">>
      [] span = <<"b", "b">> ->
           <<"3","b","6","4","d","b","9","5","c","b","5","5","c","7","6","3","3","9","1","c","7",
           "0","7","1","0","8","4","8","9","a","e","1","8","b","4","1","1","2","d","7","8","3","3",
           "0","0","d","e","3","8","e","0","3","3","b","4","c","9","8","c","3","d","e","a","f">>
      [] span = <<"b", "*">> ->
           <<"4","9","f","c","a","b","c","4","1","e","6","a","4","2","4","e","2","b","a","4","5",
           "0","f","6","3","7","b","f","8","4","8","4","c","b","e","5","a","2","d","9","1","9","b",
           "1","1","0","3","e","f","d","c","c","3","6","f","3","6","5","1","0","6","e","d","e">>
      [] span = <<"*", "a">> ->
           <<"3","a","4","1","0","2","6","8","a","b","3","3","c","d","7","1","5","7","f","f","2",
           "a","0","3","5","3","8","d","5","f","8","c","1","7","b","b","1","7","4","e","f","1","0",
           "1","d","1","e","8","7","2","f","2","0","9","5","2","4","3","5","6","7","0","5","6">>
      [] span = <<"*", "b">> ->
           <<"9","1","5","1","8","3","9","e","1","8","6","2","9","d","f","d","f","0","9","f","6",
           "8","5","3","f","b","6","2","8","c","f","8","d","1","1","b","7","e","0","0","d","0","c",
           "5","9","c","f","7","d","4","2","8","0","3","c","f","c","2","b","6","0","9","7","0">>
      [] span = <<"*", "*">> ->
           <<"9","8","3","9","8","7","0","3","3","f","0","e","1","1","7","0","1","1","e","5","3",
           "1","d","c","3","3","a","d","9","b","b","1","5","2","9","0","b","b","a","4","1","a","4",
           "1","4","d","8","3","0","f","b","5","c","b","d","b","c","d","a","2","f","f","1","7">>

\* result.intersects(other): the length of the common part, 0 when apart.
Intersects(r, other) ==
    IF r.end < other.start \/ other.end < r.start THEN 0
    ELSE (IF r.end < other.end THEN r.end ELSE other.end)
         - (IF r.start > other.start THEN r.start ELSE other.start)

\* The index of the first element of others that has r's entity type and
\* intersects it, 0 when there is none.
FirstSameTypeIntersecting(r, others) ==
    LET hits == {i \in 1..Len(others) :
                    others[i].entity_type = r.entity_type /\ Intersects(r, others[i]) # 0}
    IN IF hits = {} THEN 0 ELSE CHOOSE i \in hits : \A j \in hits : i <= j

\* other_element.start / end / score widened in place by r.
Widen(other, r) ==
    [other EXCEPT !.start = IF r.start < other.start THEN r.start ELSE other.start,
                  !.end = IF r.end > other.end THEN r.end ELSE other.end,
                  !.score = IF r.score > other.score THEN r.score ELSE other.score]

\* The anonymizer's first pass: a result that intersects another one of its
\* entity type is merged into that one.  pending are the results not yet
\* visited, kept those visited and kept; both are the other_elements.
RECURSIVE MergeSameType(_, _)
MergeSameType(pending, kept) ==
    IF pending = <<>> THEN kept
    ELSE LET r == Head(pending)
             others == Tail(pending) \o kept
             i == FirstSameTypeIntersecting(r, others)
             n == Len(pending) - 1
         IN IF i = 0 THEN MergeSameType(Tail(pending), Append(kept, r))
            ELSE IF i <= n
                 THEN MergeSameType([Tail(pending) EXCEPT ![i] = Widen(@, r)], kept)
                 ELSE MergeSameType(Tail(pending), [kept EXCEPT ![i - n] = Widen(@, r)])

\* result.has_conflict(other): same span and not the higher score, or
\* contained in the other.
HasConflict(r, other) ==
    IF r.start = other.start /\ r.end = other.end
    THEN r.score <= other.score
    ELSE other.start <= r.start /\ other.end >= r.end

\* The anonymizer's second pass: a result in conflict with another one still
\* in play is dropped.
RECURSIVE RemoveConflicts(_, _)
RemoveConflicts(pending, kept) ==
    IF pending = <<>> THEN kept
    ELSE LET r == Head(pending)
             others == Tail(pending) \o kept
             conflicted == \E i \in 1..Len(others) : HasConflict(r, others[i])
         IN RemoveConflicts(Tail(pending), IF conflicted THEN kept ELSE Append(kept, r))

\* _merge_entities_with_whitespace_between: a result whose predecessor has
\* its entity type and is parted from it by spaces only absorbs it.
RECURSIVE MergeWhitespace(_, _, _)
MergeWhitespace(text, pending, merged) ==
    IF pending = <<>> THEN merged
    ELSE LET r == Head(pending)
             prev == merged[Len(merged)]
             absorb == /\ merged # <<>>
                       /\ prev.entity_type = r.entity_type
                       /\ prev.end < r.start
                       /\ \A k \in (prev.end + 1)..r.start : text[k] = " "
         IN IF absorb
            THEN MergeWhitespace(text, Tail(pending),
                     Append(SubSeq(merged, 1, Len(merged) - 1), [r EXCEPT !.start = prev.start]))
            ELSE MergeWhitespace(text, Tail(pending), Append(merged, r))

\* sorted(pii_entities, reverse=True): by start, then end, descending.
RECURSIVE SortByStartDesc(_)
SortByStartDesc(S) ==
    IF S = {} THEN <<>>
    ELSE LET m == CHOOSE x \in S : \A y \in S :
                      x.start > y.start \/ (x.start = y.start /\ x.end >= y.end)
         IN <<m>> \o SortByStartDesc(S \ {m})

\* The entities the anonymizer operates on, in the order it takes them.
PiiEntities(text, results) ==
    LET merged == MergeWhitespace(text, RemoveConflicts(MergeSameType(results, <<>>), <<>>), <<>>)
    IN SortByStartDesc({merged[i] : i \in 1..Len(merged)})

\* Faulty variant of Operate: the text of the entity is kept.
OperateKeep(span) == span

\* The operator applied to the text of an entity: the DEFAULT operator, hash.
Operate(span) == Sha256Hex(span)

\* Faulty variant of ReplaceLoop: the digest is the operator of PERSON only,
\* an entity of another type is replaced by its type's placeholder.
RECURSIVE ReplaceLoopByType(_, _, _, _)
ReplaceLoopByType(original, output, entities, last) ==
    IF entities = <<>> THEN output
    ELSE LET e == Head(entities)
             endOfText == IF e.end < last THEN e.end ELSE last
             changed == IF e.entity_type = "PERSON"
                        THEN Operate(Slice(original, e.start, e.end))
                        ELSE <<"<", e.entity_type, ">">>
         IN ReplaceLoopByType(original,
                              Slice(output, 0, e.start) \o changed
                                  \o Slice(output, endOfText, Len(output)),
                              Tail(entities), e.start)

\* TextReplaceBuilder: the spans are read from the original text; a
\* replacement ends where the previous (later in the text) one began.
RECURSIVE ReplaceLoop(_, _, _, _)
ReplaceLoop(original, output, entities, last) ==
    IF entities = <<>> THEN output
    ELSE LET e == Head(entities)
             endOfText == IF e.end < last THEN e.end ELSE last
             changed == Operate(Slice(original, e.start, e.end))
         IN ReplaceLoop(original,
                        Slice(output, 0, e.start) \o changed
                            \o Slice(output, endOfText, Len(output)),
                        Tail(entities), e.start)

\* Faulty variant of Anonymize: the text comes back as it went in.
AnonymizeNothing(text, results) == text

\* anonymizer.anonymize(text, analyzer_results, operators).text
Anonymize(text, results) ==
    ReplaceLoop(text, text, PiiEntities(text, results), Len(text))

\* ------------------------------------------------------------------------
\* Deidentifier.deidentify

\* supported_strategies = ['mask', 'hash']
SupportedStrategies == <<"mask", "hash">>

StrategySupported(strategy) ==
    \E i \in 1..Len(SupportedStrategies) : SupportedStrategies[i] = strategy

\* Faulty variant of DeidentifyEntities: only PERSON is looked for.
DeidentifyPersonOnly == EntityList({"PERSON"})

\* self.analyze(text, language=language): no entity filter.
DeidentifyEntities == NoFilter

\* Faulty variant of NoMatchText: nothing is handed back.
NoMatchEmpty(text) == <<>>

\* if not analyzer_results: return text
NoMatchText(text) == text

\* The text deidentify returns for the results of the analysis.
DeidentifyText(text, strategy, results) ==
    IF results = <<>> THEN NoMatchText(text)
    ELSE IF strategy = "mask" THEN Mask(text, results)
    ELSE Anonymize(text, results)

\* Faulty variant of Deidentify: the strategy is looked at after the analysis.
DeidentifyAnalyzeFirst(reg, text, strategy, language) ==
    LET a == Analyze(reg, text, DeidentifyEntities, language)
    IN IF a.error # NoError
       THEN [error |-> a.error, analyzed |-> TRUE, results |-> <<>>, out |-> <<>>]
       ELSE IF ~StrategySupported(strategy)
       THEN [error |-> UnsupportedStrategyError(strategy, SupportedStrategies),
             analyzed |-> TRUE, results |-> a.results, out |-> <<>>]
       ELSE [error |-> NoError, analyzed |-> TRUE, results |-> a.results,
             out |-> DeidentifyText(text, strategy, a.results)]

\* deidentify(text, strategy, language): the error raised or the text
\* returned, with the analysis it ran.
Deidentify(reg, text, strategy, language) ==
    IF ~StrategySupported(strategy)
    THEN [error |-> UnsupportedStrategyError(strategy, SupportedStrategies),
          analyzed |-> FALSE, results |-> <<>>, out |-> <<>>]
    ELSE LET a == Analyze(reg, text, DeidentifyEntities, language)
         IN IF a.error # NoError
            THEN [error |-> a.error, analyzed |-> TRUE, results |-> <<>>, out |-> <<>>]
            ELSE [error |-> NoError, analyzed |-> TRUE, results |-> a.results,
                  out |-> DeidentifyText(text, strategy, a.results)]

\* ------------------------------------------------------------------------
\* Deidentifier.add_custom_recognizer

\* Faulty variant of ScoreValid: 0.0 is turned down.
ScoreValidAboveZero(score) == 0 < score /\ score <= 100

\* 0.0 <= score <= 1.0
ScoreValid(score) == 0 <= score /\ score <= 100

\* Faulty variant of RecognizersToKeep: every recognizer handed back is kept.
RecognizersKeptAll(existing, entity_name) == existing

\* The recognizers add_custom_recognizer keeps of those the registry handed
\* back: all but the generic PatternRecognizers that support entity_name.
RecognizersToKeep(existing, entity_name) ==
    LET dom == {r \in BagToSet(existing) :
                   r.kind # GenericPattern \/ r.entity # entity_name}
    IN [r \in dom |-> existing[r]]

\* PatternRecognizer(supported_entity=entity_name, patterns=[Pattern(...)]):
\* no supported_language is handed over, so the recognizer is the default's,
\* "en", whatever the language of the call.
NewPatternRecognizer(entity_name, regex_pattern, score, language) ==
    Recognizer(GenericPattern, entity_name, "en", regex_pattern, score)

\* Faulty variant of AddRecognizer: the recognizer is not added.
AddRecognizerLost(reg, rec) == reg

\* registry.add_recognizer(custom_recognizer)
AddRecognizer(reg, rec) == reg (+) SetToBag({rec})

\* ------------------------------------------------------------------------
\* deidentify_patient_record

\* The values of a record's fields. A str holds a text, a dict value the
\* address of the mapping object it refers to, a list its elements.
Str(t) == [t |-> "str", v |-> t]
Number(n) == [t |-> "int", v |-> n]
Ref(a) == [t |-> "dict", v |-> a]
List(s) == [t |-> "list", v |-> s]
None == [t |-> "none", v |-> 0]

\* A record is a tree of mapping objects: a function from the addresses of
\* its objects to the objects, each a function from its keys to values; the
\* record itself is the object at Root.
Root == 1

\* The field names of the model, in the order a mapping holds them.
KeyOrder ==
    <<"meta", "uuid", "timestamp", "patient", "age", "symptoms", "notes",
      "previous_tests", "selected_exams", "evaluations", "ai_exam", "exam",
      "ratings", "accuracy", "relevance", "usefulness", "coherence", "safety",
      "comments", "summary", "lang", "gender", "weight_kg", "height_cm", "diet",
      "sleep_hours", "physical_activity", "mental_exercises", "mental_health",
      "wearable_data", "selected_diagnoses", "ai_diag", "diagnosis", "options">>

\* Faulty variant of DefaultStrategy: the walk hashes.
StrategyHash == "hash"

\* deidentifier.deidentify(value): strategy: str = 'mask', language: str = 'en'
DefaultStrategy == "mask"
DefaultLanguage == "en"

\* record.items(): the keys of a mapping, in the order the model gives them.
Items(mapping) == SelectSeq(KeyOrder, LAMBDA k : k \in DOMAIN mapping)

\* Faulty variant of KeysToDeidentify: comments is left out.
KeysWithoutComments ==
    {"symptoms", "physical_activity", "mental_exercises", "mental_health",
     "previous_tests", "summary"}

\* keys_to_deidentify
KeysToDeidentify ==
    {"symptoms", "physical_activity", "mental_exercises", "mental_health",
     "previous_tests", "summary", "comments"}

\* record[key] = value
StoreItem(objects, addr, key, value) ==
    [objects EXCEPT ![addr] = [@ EXCEPT ![key] = value]]

\* Faulty variant of ReturnedRecord: another object than the one handed in.
ReturnedOther(addr) == addr + 1

\* return record
ReturnedRecord(addr) == addr

\* Faulty variant of Skipped: the strings of a list under a key to
\* de-identify are de-identified.
SkippedButLists(reg, objects, addr, key) ==
    LET value == objects[addr][key]
    IN IF value.t = "list" /\ key \in KeysToDeidentify
       THEN StoreItem(objects, addr, key,
                List([j \in 1..Len(value.v) |->
                         IF value.v[j].t = "str"
                         THEN Str(Deidentify(reg, value.v[j].v, "mask", "en").out)
                         ELSE value.v[j]]))
       ELSE objects

\* An item that is neither a mapping nor a string under a key to
\* de-identify: the loop has no branch for it, a list included.
Skipped(reg, objects, addr, key) == objects

\* for key, value in record.items(): ... from the i-th key on, in the
\* mapping at addr. A mapping value is walked in turn, a str under a key to
\* de-identify is replaced by deidentifier.deidentify(value), with the
\* default strategy and language; an error the call raises ends the walk.
RECURSIVE WalkItems(_, _, _, _)
WalkItems(reg, state, addr, i) ==
    IF i > Len(Items(state.objects[addr])) \/ state.error # NoError THEN state
    ELSE LET key == Items(state.objects[addr])[i]
             value == state.objects[addr][key]
         IN IF value.t = "dict"
            THEN WalkItems(reg, WalkItems(reg, state, value.v, 1), addr, i + 1)
            ELSE IF value.t = "str" /\ key \in KeysToDeidentify
            THEN LET d == Deidentify(reg, value.v, DefaultStrategy, DefaultLanguage)
                 IN IF d.error # NoError
                    THEN [state EXCEPT !.error = d.error]
                    ELSE WalkItems(reg,
                             [state EXCEPT !.objects = StoreItem(@, addr, key, Str(d.out))],
                             addr, i + 1)
            ELSE WalkItems(reg, [state EXCEPT !.objects = Skipped(reg, @, addr, key)],
                           addr, i + 1)

\* deidentify_patient_record(record, deidentifier): the objects as the call
\* leaves them, the error it raised and the object it returned.
DeidentifyPatientRecord(reg, objects, addr) ==
    LET walked == WalkItems(reg, [objects |-> objects, error |-> NoError], addr, 1)
    IN [objects |-> walked.objects, error |-> walked.error, ret |-> ReturnedRecord(addr)]

\* The texts the fields of the records hold.
RecordTexts == {<<"a">>, <<"b">>, <<"a", "b">>}

\* The records handed to deidentify_patient_record: free text under keys to
\* de-identify and under another key, at three depths, next to a number, a
\* list of strings, a list of one mapping (the object at 4) and a value x
\* of any kind under a key to de-identify.
RecordOf(s1, s2, x) ==
    (1 :> [age |-> Number(42), symptoms |-> Str(s1), notes |-> Str(s2),
           patient |-> Ref(2), selected_exams |-> List(<<Str(s1)>>)])
    @@ (2 :> [comments |-> x, ratings |-> Ref(3), previous_tests |-> List(<<Ref(4)>>)])
    @@ (3 :> [comments |-> Str(s1), accuracy |-> None])
    @@ (4 :> [summary |-> Str(s1)])

Records ==
    {RecordOf(s1, s2, x) :
        s1 \in RecordTexts, s2 \in RecordTexts,
        x \in {Str(<<"b">>), None, List(<<Str(<<"b">>)>>)}}

\* ------------------------------------------------------------------------
\* PatientRepository

MaxPatients == 2

Uuids == {<<"a">>, <<"b">>}

\* A patient record as the wizard starts it: meta with the uuid, and the
\* patient's data with free text.
Patient(uuid, symptoms) ==
    (1 :> [meta |-> Ref(2), patient |-> Ref(3)])
    @@ (2 :> [uuid |-> Str(uuid)])
    @@ (3 :> [symptoms |-> Str(symptoms)])

PatientData == {Patient(u, <<"a", "b">>) : u \in Uuids}

\* patient['meta']['uuid']
UuidOf(patient) == patient[patient[Root]["meta"].v]["uuid"].v

\* The index of the first patient of the list with the uuid, 0 when there is
\* none: for index, patient in enumerate(self.patients): if ... == id
FirstIndex(patients, id) ==
    LET hits == {i \in 1..Len(patients) : UuidOf(patients[i]) = id}
    IN IF hits = {} THEN 0 ELSE CHOOSE i \in hits : \A j \in hits : i <= j

\* get(id): the patient found, as a list of one, or None as the empty list.
RepoGet(patients, id) ==
    LET i == FirstIndex(patients, id)
    IN IF i = 0 THEN <<>> ELSE <<patients[i]>>

\* create(data): self.patients.append(data)
RepoCreate(patients, data) == Append(patients, data)

\* update(id, data): self.patients[index] = data for the first match; the
\* list as it is left and the value returned.
RepoUpdate(patients, id, data) ==
    LET i == FirstIndex(patients, id)
    IN IF i = 0 THEN [patients |-> patients, written |-> FALSE]
       ELSE [patients |-> [patients EXCEPT ![i] = data], written |-> TRUE]

\* delete(id): del self.patients[index] for the first match, then return.
RepoDelete(patients, id) ==
    LET i == FirstIndex(patients, id)
    IN IF i = 0 THEN [patients |-> patients, written |-> FALSE]
       ELSE [patients |-> SubSeq(patients, 1, i - 1) \o SubSeq(patients, i + 1, Len(patients)),
             written |-> TRUE]

\* ------------------------------------------------------------------------
\* exams_post

\* The form fields that rate a selected exam.
Criteria == {"accuracy", "relevance", "usefulness", "coherence", "safety", "comments"}

Digits == <<"0", "1", "2", "3", "4", "5", "6", "7", "8", "9">>

\* value.isdigit()
IsDigit(value) ==
    /\ value # <<>>
    /\ \A i \in 1..Len(value) : \E d \in 1..Len(Digits) : Digits[d] = value[i]

\* int(value), for a text of digits.
RECURSIVE ToInt(_)
ToInt(value) ==
    IF value = <<>> THEN 0
    ELSE 10 * ToInt(SubSeq(value, 1, Len(value) - 1))
         + (CHOOSE d \in 0..9 : Digits[d + 1] = value[Len(value)])

\* What a POST /exams submits: the exams selected, the custom exams and the
\* form, which holds for some criteria of the selected exam the text typed.
Submission(selected, custom, form) ==
    [selected |-> selected, custom |-> custom, form |-> form]

Submissions ==
    {Submission(<<>>, <<>>, <<>>),
     Submission(<<>>, <<"other">>, <<>>),
     Submission(<<"exam">>, <<>>, [comments |-> <<"b">>]),
     Submission(<<"exam">>, <<"other">>, [accuracy |-> <<"5">>, comments |-> <<"a", "b">>])}

\* datetime.utcnow().isoformat(timespec='seconds')
Now == <<"1">>

\* An item set in a mapping object, and an object put at an address.
SetItem(objects, addr, key, value) ==
    [objects EXCEPT ![addr] = (key :> value) @@ @]

NewObject(objects, addr, obj) == (addr :> obj) @@ objects

\* The addresses of the objects exams_post makes.
EvaluationsAt == 4
AiExamAt == 5
EvaluationAt == 6
RatingsAt == 7

\* evaluation['ratings'] of an exam: every criterion None, then the form's
\* values for it, a text of digits as the number.
Ratings(form) ==
    [c \in Criteria |->
        IF c \in DOMAIN form
        THEN (IF IsDigit(form[c]) THEN Number(ToInt(form[c])) ELSE Str(form[c]))
        ELSE None]

\* patient['selected_exams'] = selected, which custom extends later.
WithSelectedExams(patient, exams) ==
    SetItem(patient, Root, "selected_exams",
            List([i \in 1..Len(exams) |-> Str(<<exams[i]>>)]))

\* patient['meta']['timestamp'] = ...
WithTimestamp(patient) ==
    SetItem(patient, patient[Root]["meta"].v, "timestamp", Str(Now))

\* patient.setdefault('evaluations', {})
WithEvaluations(patient) ==
    IF "evaluations" \in DOMAIN patient[Root] THEN patient
    ELSE SetItem(NewObject(patient, EvaluationsAt, <<>>), Root, "evaluations",
                 Ref(EvaluationsAt))

\* ...['ai_exam'] = {}
WithAiExam(patient) ==
    SetItem(NewObject(patient, AiExamAt, <<>>), patient[Root]["evaluations"].v,
            "ai_exam", Ref(AiExamAt))

\* patient['evaluations']['ai_exam'][exam] = evaluation, for the exam selected.
WithEvaluation(patient, selected, form) ==
    IF selected = <<>> THEN patient
    ELSE SetItem(NewObject(NewObject(patient, RatingsAt, Ratings(form)),
                           EvaluationAt, [ratings |-> Ref(RatingsAt)]),
                 AiExamAt, selected[1], Ref(EvaluationAt))

\* The record as exams_post has built it before it de-identifies it.
BuiltRecord(patient, selected, custom, form) ==
    WithEvaluation(
        WithAiExam(WithEvaluations(WithTimestamp(
            WithSelectedExams(patient, selected \o custom)))),
        selected, form)

\* Faulty variant of PersistedRecord: the record goes to the repository as
\* it was built.
PersistedRaw(reg, built) == [objects |-> built, error |-> NoError, ret |-> Root]

\* deidentify_patient_record(patient, deidentifier), whose result is handed
\* to repo.update.
PersistedRecord(reg, built) == DeidentifyPatientRecord(reg, built, Root)

\* NoneType is not subscriptable: repo.get found no patient.
NoPatientError == [kind |-> "TypeError", value |-> "", options |-> <<>>]

\* repo.update(patient_id, deidentified_patient_record), unless the
\* de-identification d raised; the patient, found at i, has been changed in
\* place either way.
ExamsPersist(patients, patient_id, i, d) ==
    IF d.error # NoError
    THEN [error |-> d.error, patients |-> [patients EXCEPT ![i] = d.objects],
          written |-> FALSE]
    ELSE [error |-> NoError, written |-> TRUE,
          patients |-> RepoUpdate([patients EXCEPT ![i] = d.objects],
                                  patient_id, d.objects).patients]

\* The handler once repo.get has answered with the i-th patient, or None.
ExamsFound(reg, patients, patient_id, i, selected, custom, form) ==
    IF i = 0
    THEN [error |-> NoPatientError, patients |-> patients, written |-> FALSE]
    ELSE ExamsPersist(patients, patient_id, i,
             PersistedRecord(reg, BuiltRecord(patients[i], selected, custom, form)))

\* exams_post(patient_id, selected, custom, form) on a repository: the error
\* raised, the list of the repository and whether the file was written.
ExamsPost(reg, patients, patient_id, selected, custom, form) ==
    ExamsFound(reg, patients, patient_id, FirstIndex(patients, patient_id),
               selected, custom, form)

\* ------------------------------------------------------------------------
\* The state: the recognizers of analyzer.registry, the entity names a call
\* of add_custom_recognizer has registered, the call in progress with what it
\* raised or returned, the list of the PatientRepository and the patients
\* its JSON file holds.

VARIABLES registry, registered, last, patients, file, pending, requests

vars == <<registry, registered, last, patients, file, pending, requests>>

Idle ==
    [op |-> "idle", entity |-> "", regex |-> <<>>, score |-> 0, lang |-> "",
     entities |-> NoFilter, text |-> <<>>, strategy |-> "", error |-> NoError,
     analyzed |-> FALSE, results |-> <<>>, out |-> <<>>,
     record |-> <<>>, after |-> <<>>, ret |-> 0,
     id |-> <<>>, data |-> <<>>, found |-> <<>>, written |-> FALSE,
     submitted |-> <<>>, before |-> EmptyBag, step |-> "", upload |-> ""]

\* The threads that serve requests at the same time: the handlers are plain
\* functions, which the application runs in a pool of threads.
Workers == {1, 2}

\* A thread with no request.
NoRequest == [pc |-> "none", op |-> "", id |-> <<>>, text |-> <<>>, patients |-> <<>>,
              written |-> FALSE]

\* Deidentifier(): AnalyzerEngine() loads the predefined recognizers of its
\* one default language, "en". PatientRepository(): with no file yet, the
\* list is empty and is written to the file.
Init ==
    /\ registry = SetToBag(Predefined("en"))
    /\ registered = {}
    /\ last = Idle
    /\ patients = <<>>
    /\ file = <<>>
    /\ pending = <<>>
    /\ requests = [r \in Workers |-> NoRequest]

\* add_custom_recognizer(entity_name, regex_pattern, score, language).
\* Whether Pattern(...) compiles the regex when it is built (eager) or the
\* recognizer does at its first analysis is the library's choice: both
\* happen. The registry's list has been replaced by then.
AddCustomRecognizer(entity_name, regex_pattern, score, language, eager) ==
    LET call == [Idle EXCEPT !.op = "add", !.entity = entity_name, !.regex = regex_pattern,
                             !.score = score, !.lang = language]
        existing == GetRecognizers(registry, language, NoFilter)
    IN /\ last.op = "idle"
       /\ IF ~ScoreValid(score)
          THEN /\ last' = [call EXCEPT !.error = ScoreError]
               /\ UNCHANGED <<registry, registered>>
          ELSE IF existing = EmptyBag
          THEN /\ last' = [call EXCEPT !.error = NoRecognizersError]
               /\ UNCHANGED <<registry, registered>>
          ELSE IF eager /\ ~Compiles(regex_pattern)
          THEN /\ registry' = RecognizersToKeep(existing, entity_name)
               /\ last' = [call EXCEPT !.error = PatternCompileError]
               /\ UNCHANGED registered
          ELSE /\ registry' = AddRecognizer(RecognizersToKeep(existing, entity_name),
                                  NewPatternRecognizer(entity_name, regex_pattern, score, language))
               /\ registered' = registered \cup {entity_name}
               /\ last' = call
       /\ UNCHANGED <<patients, file, pending, requests>>

\* analyze(text, entities, language)
\* Faulty variant: analysis stores the list get_recognizers filtered, as
\* line 63 does.
RegistryFilteredByAnalysis(reg, language) == GetRecognizers(reg, language, NoFilter)

\* registry.recognizers once self.analyzer.analyze has run: get_recognizers
\* answers with a list of its own, and lines 82-84 assign nothing.
RegistryAfterAnalysis(reg, language) == reg

AnalyzeCall(text, entities, language) ==
    LET a == Analyze(registry, text, entities, language)
    IN /\ last.op = "idle"
       /\ last' = [Idle EXCEPT !.op = "analyze", !.text = text, !.entities = entities,
                               !.lang = language, !.error = a.error, !.analyzed = TRUE,
                               !.results = a.results]
       /\ registry' = RegistryAfterAnalysis(registry, language)
       /\ UNCHANGED <<registered, patients, file, pending, requests>>

\* deidentify(text, strategy, language)
DeidentifyCall(text, strategy, language) ==
    LET d == Deidentify(registry, text, strategy, language)
    IN /\ last.op = "idle"
       /\ last' = [Idle EXCEPT !.op = "deidentify", !.text = text, !.strategy = strategy,
                               !.lang = language, !.error = d.error, !.analyzed = d.analyzed,
                               !.results = d.results, !.out = d.out]
       /\ registry' = IF d.analyzed THEN RegistryAfterAnalysis(registry, language)
                      ELSE registry
       /\ UNCHANGED <<registered, patients, file, pending, requests>>

\* deidentify_patient_record(record, deidentifier)
DeidentifyPatientRecordCall(record) ==
    LET r == DeidentifyPatientRecord(registry, record, Root)
    IN /\ last.op = "idle"
       /\ last' = [Idle EXCEPT !.op = "record", !.record = record, !.after = r.objects,
                               !.ret = r.ret, !.error = r.error]
       /\ registry' = RegistryAfterAnalysis(registry, "en")
       /\ UNCHANGED <<registered, patients, file, pending, requests>>

\* A client sets the engine up for a further language through the public
\* analyzer attribute: the registry loads that language's predefined
\* recognizers.
LoadPredefinedRecognizers(language) ==
    /\ last.op = "idle"
    /\ Predefined(language) \cap BagToSet(registry) = {}
    /\ registry' = registry (+) SetToBag(Predefined(language))
    /\ UNCHANGED <<registered, last, patients, file, pending, requests>>

\* The call returns or raises to its caller.
Return ==
    /\ last.op # "idle"
    /\ last' = Idle
    /\ UNCHANGED <<registry, registered, patients, file, pending, requests>>

Next ==
    \/ \E e \in EntityNames, p \in Patterns, s \in Scores, l \in Languages :
           AddCustomRecognizer(e, p, s, l, TRUE)
    \/ \E e \in EntityNames, p \in Uncompilable, l \in Languages, eager \in BOOLEAN :
           AddCustomRecognizer(e, p, DefaultScore, l, eager)
    \/ \E t \in Texts, f \in {NoFilter, EntityList({}), EntityList({"ORDER_ID"})},
          l \in Languages : AnalyzeCall(t, f, l)
    \/ \E t \in Texts, s \in Strategies, l \in Languages : DeidentifyCall(t, s, l)
    \/ \E l \in Languages : LoadPredefinedRecognizers(l)
    \/ \E r \in Records : DeidentifyPatientRecordCall(r)
    \/ Return

Spec == Init /\ [][Next]_vars

\* ------------------------------------------------------------------------
\* add_custom_recognizer in one thread, analyze and deidentify in another,
\* on the one Deidentifier get_deidentifier hands to every request.  The
\* call in pending has run lines 41-63 and not yet lines 66-72.

\* Lines 41-63 of a call that passes the checks of lines 41-48: the
\* registry's list is replaced.  (A call they refuse changes nothing.)
AddReplace(entity_name, regex_pattern, score, language) ==
    LET existing == GetRecognizers(registry, language, NoFilter)
    IN /\ last.op = "idle" /\ pending = <<>>
       /\ ScoreValid(score) /\ existing # EmptyBag
       /\ registry' = RecognizersToKeep(existing, entity_name)
       /\ pending' = <<[Idle EXCEPT !.op = "add", !.entity = entity_name,
                                    !.regex = regex_pattern, !.score = score,
                                    !.lang = language, !.before = registry]>>
       /\ UNCHANGED <<registered, last, patients, file, requests>>

\* Lines 66-72 of the call in pending: the new recognizer is added to the
\* list as it is by now.
AddFinish ==
    /\ last.op = "idle" /\ pending # <<>>
    /\ registry' = AddRecognizer(registry,
                       NewPatternRecognizer(pending[1].entity, pending[1].regex,
                                            pending[1].score, pending[1].lang))
    /\ registered' = registered \cup {pending[1].entity}
    /\ pending' = <<>>
    /\ UNCHANGED <<last, patients, file, requests>>

ConcNext ==
    \/ \E e \in EntityNames, p \in Patterns, s \in Scores, l \in Languages :
           AddReplace(e, p, s, l)
    \/ AddFinish
    \/ \E t \in Texts : AnalyzeCall(t, NoFilter, "en")
    \/ \E t \in Texts : DeidentifyCall(t, "mask", "en")
    \/ Return

ConcSpec == Init /\ [][ConcNext]_vars

\* ------------------------------------------------------------------------
\* The web application: its handlers work on a PatientRepository and on the
\* one Deidentifier of get_deidentifier, whose registry no handler changes.

\* repo.all()
All ==
    /\ last.op = "idle"
    /\ last' = [Idle EXCEPT !.op = "all", !.found = patients]
    /\ UNCHANGED <<registry, registered, patients, file, pending, requests>>

\* repo.get(id)
Get(id) ==
    /\ last.op = "idle"
    /\ last' = [Idle EXCEPT !.op = "get", !.id = id, !.found = RepoGet(patients, id)]
    /\ UNCHANGED <<registry, registered, patients, file, pending, requests>>

\* repo.create(data): the list is appended to and written to the file.
Create(data) ==
    /\ last.op = "idle"
    /\ Len(patients) < MaxPatients
    /\ patients' = RepoCreate(patients, data)
    /\ file' = patients'
    /\ last' = [Idle EXCEPT !.op = "create", !.data = data, !.written = TRUE]
    /\ UNCHANGED <<registry, registered, pending, requests>>

\* repo.update(id, data): the file is written when a patient was found.
Update(id, data) ==
    LET u == RepoUpdate(patients, id, data)
    IN /\ last.op = "idle"
       /\ patients' = u.patients
       /\ file' = IF u.written THEN u.patients ELSE file
       /\ last' = [Idle EXCEPT !.op = "update", !.id = id, !.data = data,
                               !.written = u.written]
       /\ UNCHANGED <<registry, registered, pending, requests>>

\* repo.delete(id): the file is written when a patient was found.
Delete(id) ==
    LET u == RepoDelete(patients, id)
    IN /\ last.op = "idle"
       /\ patients' = u.patients
       /\ file' = IF u.written THEN u.patients ELSE file
       /\ last' = [Idle EXCEPT !.op = "delete", !.id = id, !.written = u.written]
       /\ UNCHANGED <<registry, registered, pending, requests>>

\* POST /exams
ExamsPostCall(patient_id, s) ==
    LET e == ExamsPost(registry, patients, patient_id, s.selected, s.custom, s.form)
    IN /\ last.op = "idle"
       /\ patients' = e.patients
       /\ file' = IF e.written THEN e.patients ELSE file
       /\ last' = [Idle EXCEPT !.op = "exams_post", !.id = patient_id, !.error = e.error,
                               !.written = e.written, !.submitted = s]
       /\ UNCHANGED <<registry, registered, pending, requests>>

AppNext ==
    \/ All
    \/ \E id \in Uuids : Get(id)
    \/ \E data \in PatientData : Create(data)
    \/ \E id \in Uuids, data \in PatientData : Update(id, data)
    \/ \E id \in Uuids : Delete(id)
    \/ \E id \in Uuids, s \in Submissions : ExamsPostCall(id, s)
    \/ Return

AppSpec == Init /\ [][AppNext]_vars

\* ------------------------------------------------------------------------
\* The consultation wizard of research.app.main.  Every request builds its
\* PatientRepository, which loads the file; patients is the list of the
\* repository of the request that ran last.

\* Consultations started at most.
MaxConsultations == 1

\* The steps in the order _get_next_step looks for their data.
Steps ==
    <<"demographics", "lifestyle", "symptoms", "mental", "tests", "wearable",
      "diagnosis", "exams">>

\* patient.get('patient', {})
PatientDataOf(patient) ==
    IF "patient" \in DOMAIN patient[Root]
    THEN patient[patient[Root]["patient"].v] ELSE <<>>

\* Faulty variant of GetNextStep: previous tests are asked for before
\* mental health.
GetNextStepTestsFirst(patient) ==
    IF "age" \notin DOMAIN PatientDataOf(patient) THEN "demographics"
    ELSE IF "diet" \notin DOMAIN PatientDataOf(patient) THEN "lifestyle"
    ELSE IF "symptoms" \notin DOMAIN PatientDataOf(patient) THEN "symptoms"
    ELSE IF "previous_tests" \notin DOMAIN PatientDataOf(patient) THEN "tests"
    ELSE IF "mental_health" \notin DOMAIN PatientDataOf(patient) THEN "mental"
    ELSE IF "wearable_data" \notin DOMAIN PatientDataOf(patient) THEN "wearable"
    ELSE IF "selected_diagnoses" \notin DOMAIN patient[Root] THEN "diagnosis"
    ELSE IF "selected_exams" \notin DOMAIN patient[Root] THEN "exams"
    ELSE "complete"

\* _get_next_step(patient): the first step whose data is missing.
GetNextStep(patient) ==
    IF "age" \notin DOMAIN PatientDataOf(patient) THEN "demographics"
    ELSE IF "diet" \notin DOMAIN PatientDataOf(patient) THEN "lifestyle"
    ELSE IF "symptoms" \notin DOMAIN PatientDataOf(patient) THEN "symptoms"
    ELSE IF "mental_health" \notin DOMAIN PatientDataOf(patient) THEN "mental"
    ELSE IF "previous_tests" \notin DOMAIN PatientDataOf(patient) THEN "tests"
    ELSE IF "wearable_data" \notin DOMAIN PatientDataOf(patient) THEN "wearable"
    ELSE IF "selected_diagnoses" \notin DOMAIN patient[Root] THEN "diagnosis"
    ELSE IF "selected_exams" \notin DOMAIN patient[Root] THEN "exams"
    ELSE "complete"

\* The place of a step in the wizard, 9 for 'complete'.
StepIndex(step) ==
    IF step = "complete" THEN Len(Steps) + 1
    ELSE CHOOSE i \in 1..Len(Steps) : Steps[i] = step

\* new_patient_record of start_new_consultation.
NewPatientRecord(patient_id, lang) ==
    (1 :> [patient |-> Ref(3), meta |-> Ref(2)])
    @@ (2 :> [uuid |-> Str(patient_id), lang |-> Str(lang)])
    @@ (3 :> <<>>)

\* mapping.update(**fields)
DictUpdate(objects, addr, fields) == [objects EXCEPT ![addr] = fields @@ @]

\* The free text a physician types, with a name in it (the "b" the
\* predefined recognizer of PERSON matches), and the text of the fields
\* the model gives one value.
TypedText == <<"a", "b">>
PlainText == <<"a">>

\* The addresses of the objects diagnosis_post and the two GET handlers of
\* the AI steps make.
DiagEvaluationsAt == 8
DiagEvaluationAt == 9
DiagRatingsAt == 10
AiDiagAt == 11
AiExamOutputAt == 12

\* patient['patient'].update(age=..., gender=..., weight_kg=..., height_cm=...)
WithDemographics(patient) ==
    DictUpdate(patient, patient[Root]["patient"].v,
               [age |-> Number(42), gender |-> Str(PlainText),
                weight_kg |-> Number(70), height_cm |-> Number(170)])

\* patient['patient'].update(diet=..., sleep_hours=..., physical_activity=...,
\* mental_exercises=...)
WithLifestyle(patient) ==
    DictUpdate(patient, patient[Root]["patient"].v,
               [diet |-> Str(PlainText), sleep_hours |-> Number(8),
                physical_activity |-> Str(PlainText),
                mental_exercises |-> Str(PlainText)])

\* patient['patient'][key] = text, of symptoms_post, mental_post, tests_post.
WithText(patient, key, text) ==
    SetItem(patient, patient[Root]["patient"].v, key, Str(text))

\* patient['patient']['wearable_data'] = wearable_data
WithWearableData(patient) ==
    SetItem(patient, patient[Root]["patient"].v, "wearable_data", List(<<Number(1)>>))

\* ai.model_dump(): the summary and the options the model wrote.
ModelDump == [summary |-> Str(TypedText), options |-> List(<<Str(PlainText)>>)]

\* patient['ai_diag'] = ai.model_dump() / patient['ai_exam'] = ai.model_dump()
WithModelDump(patient, key, addr) ==
    SetItem(NewObject(patient, addr, ModelDump), Root, key, Ref(addr))

\* The criteria diagnosis_post rates.
DiagCriteria == {"accuracy", "relevance", "usefulness", "coherence", "comments"}

DiagRatings(form) ==
    [c \in DiagCriteria |->
        IF c \in DOMAIN form
        THEN (IF IsDigit(form[c]) THEN Number(ToInt(form[c])) ELSE Str(form[c]))
        ELSE None]

\* patient['selected_diagnoses'] = selected, which custom extends later.
WithSelectedDiagnoses(patient, diagnoses) ==
    SetItem(patient, Root, "selected_diagnoses",
            List([i \in 1..Len(diagnoses) |-> Str(<<diagnoses[i]>>)]))

\* ...['ai_diag'] = {}
WithDiagEvaluations(patient) ==
    SetItem(NewObject(patient, DiagEvaluationsAt, <<>>), patient[Root]["evaluations"].v,
            "ai_diag", Ref(DiagEvaluationsAt))

\* patient['evaluations']['ai_diag'][diagnosis] = evaluation
WithDiagEvaluation(patient, selected, form) ==
    IF selected = <<>> THEN patient
    ELSE SetItem(NewObject(NewObject(patient, DiagRatingsAt, DiagRatings(form)),
                           DiagEvaluationAt, [ratings |-> Ref(DiagRatingsAt)]),
                 DiagEvaluationsAt, selected[1], Ref(DiagEvaluationAt))

\* The record as diagnosis_post hands it to repo.update.
DiagnosedRecord(patient, selected, custom, form) ==
    WithDiagEvaluation(
        WithDiagEvaluations(WithEvaluations(
            WithSelectedDiagnoses(patient, selected \o custom))),
        selected, form)

\* What a POST /diagnosis submits.
DiagnosisSubmissions ==
    {Submission(<<"diagnosis">>, <<>>, [comments |-> <<"b">>])}

\* What a POST /exams of the wizard submits.
ExamsSubmissions ==
    {Submission(<<>>, <<>>, <<>>),
     Submission(<<"exam">>, <<>>, [comments |-> <<"b">>])}

\* What is uploaded at POST /wearable: no file (size 0), a file the
\* extractor reads, a supported file it fails on, a file it does not support.
Uploads == {"none", "read", "corrupted", "unsupported"}

\* patient = repo.get(patient_id), the change in place, then
\* repo.update(patient_id, patient); with no such patient the handler
\* raises on None.
Handled(loaded, patient_id, i, changed) ==
    IF i = 0
    THEN [error |-> NoPatientError, patients |-> loaded, written |-> FALSE]
    ELSE [error |-> NoError, written |-> TRUE,
          patients |-> RepoUpdate([loaded EXCEPT ![i] = changed], patient_id,
                                  changed).patients]

\* The stored record of the patient of the request in last.
Stored(list, patient_id) == list[FirstIndex(list, patient_id)]

\* A request whose handler left the list of its repository as r says.
Request(op, patient_id, r) ==
    /\ last.op = "idle"
    /\ patients' = r.patients
    /\ file' = IF r.written THEN r.patients ELSE file
    /\ last' = [Idle EXCEPT !.op = op, !.id = patient_id, !.error = r.error,
                            !.written = r.written]
    /\ UNCHANGED <<registry, registered, pending, requests>>

\* The client has been sent to the page of the step: it is the step the
\* gatekeeper names for the patient, or one before it.
Shown(patient_id, step) ==
    /\ FirstIndex(file, patient_id) # 0
    /\ StepIndex(step) <= StepIndex(GetNextStep(file[FirstIndex(file, patient_id)]))

\* start_new_consultation(lang): uuid4 gives an id no record has.
StartNewConsultation(patient_id, lang) ==
    /\ Len(file) < MaxConsultations
    /\ FirstIndex(file, patient_id) = 0
    /\ Request("start", patient_id,
               [error |-> NoError, written |-> TRUE,
                patients |-> RepoCreate(file, NewPatientRecord(patient_id, lang))])

\* consultation_gatekeeper(patient_id): the step it redirects to, or 404.
ConsultationGatekeeper(patient_id) ==
    /\ last.op = "idle"
    /\ last' = IF FirstIndex(file, patient_id) = 0
               THEN [Idle EXCEPT !.op = "gatekeeper", !.id = patient_id,
                                 !.error = NoPatientError]
               ELSE [Idle EXCEPT !.op = "gatekeeper", !.id = patient_id,
                                 !.step = GetNextStep(file[FirstIndex(file, patient_id)])]
    /\ patients' = file
    /\ UNCHANGED <<registry, registered, file, pending, requests>>

DemographicsPost(patient_id) ==
    /\ Shown(patient_id, "demographics")
    /\ Request("demographics_post", patient_id,
               Handled(file, patient_id, FirstIndex(file, patient_id),
                       WithDemographics(file[FirstIndex(file, patient_id)])))

LifestylePost(patient_id) ==
    /\ Shown(patient_id, "lifestyle")
    /\ Request("lifestyle_post", patient_id,
               Handled(file, patient_id, FirstIndex(file, patient_id),
                       WithLifestyle(file[FirstIndex(file, patient_id)])))

SymptomsPost(patient_id, symptoms) ==
    /\ Shown(patient_id, "symptoms")
    /\ Request("symptoms_post", patient_id,
               Handled(file, patient_id, FirstIndex(file, patient_id),
                       WithText(file[FirstIndex(file, patient_id)], "symptoms", symptoms)))

MentalPost(patient_id, mental_health) ==
    /\ Shown(patient_id, "mental")
    /\ Request("mental_post", patient_id,
               Handled(file, patient_id, FirstIndex(file, patient_id),
                       WithText(file[FirstIndex(file, patient_id)], "mental_health",
                                mental_health)))

TestsPost(patient_id, previous_tests) ==
    /\ Shown(patient_id, "tests")
    /\ Request("tests_post", patient_id,
               Handled(file, patient_id, FirstIndex(file, patient_id),
                       WithText(file[FirstIndex(file, patient_id)], "previous_tests",
                                previous_tests)))

\* wearable_post on the list of its repository: only a file the extractor
\* reads is stored; with no file (size 0) the handler redirects to the
\* gatekeeper, with a file it fails on or does not support it renders the
\* page again, and the record is as it was.
WearableHandled(loaded, patient_id, uploaded) ==
    IF uploaded = "read"
    THEN Handled(loaded, patient_id, FirstIndex(loaded, patient_id),
                 WithWearableData(loaded[FirstIndex(loaded, patient_id)]))
    ELSE [error |-> NoError, patients |-> loaded, written |-> FALSE]

WearablePost(patient_id, uploaded) ==
    /\ Shown(patient_id, "wearable")
    /\ last.op = "idle"
    /\ patients' = WearableHandled(file, patient_id, uploaded).patients
    /\ file' = IF WearableHandled(file, patient_id, uploaded).written
               THEN WearableHandled(file, patient_id, uploaded).patients ELSE file
    /\ last' = [Idle EXCEPT !.op = "wearable_post", !.id = patient_id,
                            !.upload = uploaded,
                            !.written = WearableHandled(file, patient_id, uploaded).written]
    /\ UNCHANGED <<registry, registered, pending, requests>>

\* diagnosis(patient_id): the GET stores what the model wrote.
DiagnosisGet(patient_id) ==
    /\ Shown(patient_id, "diagnosis")
    /\ Request("diagnosis", patient_id,
               Handled(file, patient_id, FirstIndex(file, patient_id),
                       WithModelDump(file[FirstIndex(file, patient_id)], "ai_diag", AiDiagAt)))

DiagnosisPost(patient_id, s) ==
    /\ Shown(patient_id, "diagnosis")
    /\ Request("diagnosis_post", patient_id,
               Handled(file, patient_id, FirstIndex(file, patient_id),
                       DiagnosedRecord(file[FirstIndex(file, patient_id)],
                                       s.selected, s.custom, s.form)))

\* exams(patient_id): the GET stores what the model wrote.
ExamsGet(patient_id) ==
    /\ Shown(patient_id, "exams")
    /\ Request("exams", patient_id,
               Handled(file, patient_id, FirstIndex(file, patient_id),
                       WithModelDump(file[FirstIndex(file, patient_id)], "ai_exam",
                                     AiExamOutputAt)))

\* exams_post of a request of the wizard.
ExamsPostRequest(patient_id, s) ==
    /\ Shown(patient_id, "exams")
    /\ Request("exams_post", patient_id,
               ExamsPost(registry, file, patient_id, s.selected, s.custom, s.form))

\* delete_patient(patient_id)
DeletePatient(patient_id) ==
    Request("delete_patient", patient_id,
            [error |-> NoError, patients |-> RepoDelete(file, patient_id).patients,
             written |-> RepoDelete(file, patient_id).written])

WizardNext ==
    \/ \E id \in Uuids : StartNewConsultation(id, <<"e", "n">>)
    \/ \E id \in Uuids : ConsultationGatekeeper(id)
    \/ \E id \in Uuids : DemographicsPost(id)
    \/ \E id \in Uuids : LifestylePost(id)
    \/ \E id \in Uuids : SymptomsPost(id, TypedText)
    \/ \E id \in Uuids : MentalPost(id, PlainText)
    \/ \E id \in Uuids : TestsPost(id, PlainText)
    \/ \E id \in Uuids, uploaded \in Uploads : WearablePost(id, uploaded)
    \/ \E id \in Uuids : DiagnosisGet(id)
    \/ \E id \in Uuids, s \in DiagnosisSubmissions : DiagnosisPost(id, s)
    \/ \E id \in Uuids : ExamsGet(id)
    \/ \E id \in Uuids, s \in ExamsSubmissions : ExamsPostRequest(id, s)
    \/ \E id \in Uuids : DeletePatient(id)
    \/ Return

WizardSpec == Init /\ [][WizardNext]_vars

\* ------------------------------------------------------------------------
\* Requests served at the same time. get_repository() gives each request a
\* PatientRepository of its own, whose list is the file as it was when the
\* repository was built; create and update write that whole list back.

\* The handlers the threads serve.
ThreadedOps == {"start", "symptoms_post"}

\* get_repository(): PatientRepository() loads the whole file for the
\* request of thread w. uuid4 gives a new consultation an id no record and
\* no other request has.
BuildRepository(w, op, patient_id, text) ==
    /\ requests[w].pc = "none"
    /\ op = "start" =>
           /\ FirstIndex(file, patient_id) = 0
           /\ \A v \in Workers : ~(requests[v].op = "start" /\ requests[v].id = patient_id)
           /\ text = <<>>
    /\ op # "start" => FirstIndex(file, patient_id) # 0
    /\ requests' = [requests EXCEPT ![w] = [pc |-> "loaded", op |-> op, id |-> patient_id,
                                            text |-> text, patients |-> file,
                                            written |-> FALSE]]
    /\ UNCHANGED <<registry, registered, last, patients, file, pending>>

\* What the handler of request q leaves of the list of its repository.
Served(q) ==
    IF q.op = "start"
    THEN [error |-> NoError, written |-> TRUE,
          patients |-> RepoCreate(q.patients, NewPatientRecord(q.id, <<"e", "n">>))]
    ELSE Handled(q.patients, q.id, FirstIndex(q.patients, q.id),
                 WithText(Stored(q.patients, q.id), "symptoms", q.text))

\* The body of the handler of thread w: repo.get, the change, and
\* repo.create or repo.update, which dumps the list of this repository
\* over the file.
ServeRequest(w) ==
    /\ requests[w].pc = "loaded"
    /\ requests' = [requests EXCEPT ![w] = [@ EXCEPT !.pc = "done",
                                               !.patients = Served(requests[w]).patients,
                                               !.written = Served(requests[w]).written]]
    /\ file' = IF Served(requests[w]).written THEN Served(requests[w]).patients ELSE file
    /\ UNCHANGED <<registry, registered, last, patients, pending>>

\* The response is sent and the thread is free for the next request.
Respond(w) ==
    /\ requests[w].pc = "done"
    /\ requests' = [requests EXCEPT ![w] = NoRequest]
    /\ UNCHANGED <<registry, registered, last, patients, file, pending>>

ThreadsNext ==
    \/ \E w \in Workers, id \in Uuids : BuildRepository(w, "start", id, <<>>)
    \/ \E w \in Workers, id \in Uuids, op \in ThreadedOps \ {"start"},
          text \in {PlainText, TypedText} : BuildRepository(w, op, id, text)
    \/ \E w \in Workers : ServeRequest(w)
    \/ \E w \in Workers : Respond(w)

ThreadsSpec == Init /\ [][ThreadsNext]_vars

\* ------------------------------------------------------------------------
\* Properties.

\* The call in progress is op and has raised nothing.
Returned(op) == last.op = op /\ last.error = NoError

\* What analyze reports on the text of the call in progress, for its language.
Matches == Analyze(registry, last.text, NoFilter, last.lang).results

\* The generic pattern recognizers of a registry that support an entity name.
GenericFor(reg, entity_name) ==
    LET dom == {r \in BagToSet(reg) : r.kind = GenericPattern /\ r.entity = entity_name}
    IN [r \in dom |-> reg[r]]

\* Results i and j overlap without one containing the other.
PartlyOverlap(results, i, j) ==
    /\ results[i].start < results[j].start
    /\ results[j].start < results[i].end
    /\ results[i].end < results[j].end

\* C1: deidentify(text, strategy='mask') returns a text as long as the input,
\* and on the span of every match that analyze reports the output is
\* end - start characters '*'.
C1_MaskKeepsLength ==
    (Returned("deidentify") /\ last.strategy = "mask") =>
        /\ Len(last.out) = Len(last.text)
        /\ \A i \in 1..Len(Matches) :
               Slice(last.out, Matches[i].start, Matches[i].end)
                   = Stars(Matches[i].end - Matches[i].start)

\* C1's case: a mask call on a text with matches that partly overlap.
C1_Witness ==
    /\ Returned("deidentify") /\ last.strategy = "mask"
    /\ \E i, j \in 1..Len(Matches) : PartlyOverlap(Matches, i, j)

\* C2 as stated: on every non-empty match the masked output differs from the
\* input, whatever the span holds.
C2_MaskAltersEverySpan ==
    (Returned("deidentify") /\ last.strategy = "mask") =>
        \A i \in 1..Len(Matches) :
            Matches[i].start < Matches[i].end =>
                Slice(last.out, Matches[i].start, Matches[i].end)
                    # Slice(last.text, Matches[i].start, Matches[i].end)

\* C2, amended: on a match the masked output differs from the input exactly
\* when the span holds a character other than '*'; a span of '*' only is
\* handed back as it was.
C2_MaskAltersSpanUnlessStars ==
    (Returned("deidentify") /\ last.strategy = "mask") =>
        \A i \in 1..Len(Matches) :
            (Slice(last.out, Matches[i].start, Matches[i].end)
                 # Slice(last.text, Matches[i].start, Matches[i].end))
            <=> (\E k \in (Matches[i].start + 1)..Matches[i].end : last.text[k] # "*")

\* C2's case: a mask call with a match on a span that holds no '*' and a
\* match on a span of '*' only.
C2_Witness ==
    /\ Returned("deidentify") /\ last.strategy = "mask"
    /\ \E i \in 1..Len(Matches) :
           \A k \in (Matches[i].start + 1)..Matches[i].end : last.text[k] # "*"
    /\ \E i \in 1..Len(Matches) :
           \A k \in (Matches[i].start + 1)..Matches[i].end : last.text[k] = "*"

\* C3: when analyze finds no match, deidentify returns the input text, with
\* mask and with hash.
C3_NoMatchIdentity ==
    (/\ last.op = "deidentify"
     /\ StrategySupported(last.strategy)
     /\ Analyze(registry, last.text, NoFilter, last.lang).error = NoError
     /\ Matches = <<>>) =>
        last.error = NoError /\ last.out = last.text

\* C3's case: a hash call on a non-empty text without a match, while a
\* custom recognizer is registered.
C3_Witness ==
    /\ Returned("deidentify") /\ last.strategy = "hash"
    /\ last.text # <<>> /\ Matches = <<>>
    /\ registered # {}

\* C4: an unsupported strategy is refused with an error that names it and
\* lists mask and hash, before any analysis, whatever the text.
C4_UnsupportedStrategy ==
    (last.op = "deidentify" /\ last.strategy \notin {"mask", "hash"}) =>
        /\ last.error.kind = "ValueError: Unsupported strategy"
        /\ last.error.value = last.strategy
        /\ last.error.options = <<"mask", "hash">>
        /\ ~last.analyzed
        /\ last.out = <<>>

\* C4's case: an unsupported strategy on a text the analysis would find
\* matches in.
C4_Witness ==
    /\ last.op = "deidentify" /\ last.strategy = "encrypt"
    /\ Analyze(registry, last.text, NoFilter, last.lang).error = NoError
    /\ Matches # <<>>

\* The results of a list that carry an entity type on a span.
ResultsOn(results, entity, start, end) ==
    {i \in 1..Len(results) :
        /\ results[i].entity_type = entity
        /\ results[i].start = start /\ results[i].end = end}

\* C5 as stated: whatever calls of add_custom_recognizer were made, the
\* registry holds exactly one generic pattern recognizer for every entity
\* name registered, the one of the latest call for that name, and analyze
\* reports one match of that entity type, not two, on a span it matches.
C5_OnePerRegisteredName ==
    /\ \A e \in registered : BagCardinality(GenericFor(registry, e)) = 1
    /\ Returned("add") =>
           \A r \in BagToSet(GenericFor(registry, last.entity)) :
               r.regex = last.regex /\ r.score = last.score
    /\ Returned("analyze") =>
           \A i \in 1..Len(last.results) :
               Cardinality(ResultsOn(last.results, last.results[i].entity_type,
                                     last.results[i].start, last.results[i].end)) = 1

\* C6: a score outside [0.0, 1.0] is refused and the registry is left as it
\* was; 0.0 and 1.0 pass the check, and the call then registers the
\* recognizer whenever the registry serves the language.
C6_ScoreCheckedFirst ==
    [][(last.op = "idle" /\ last'.op = "add") =>
          /\ (last'.score < 0 \/ last'.score > 100) =>
                 last'.error = ScoreError /\ registry' = registry
          /\ last'.score \in {0, 100} =>
                 /\ last'.error # ScoreError
                 /\ GetRecognizers(registry, last'.lang, NoFilter) # EmptyBag =>
                        /\ last'.error = NoError
                        /\ BagCardinality(GenericFor(registry', last'.entity)) = 1]_vars

\* C6's case: a call with a score out of range for an entity name whose
\* recognizer the call would have replaced.
C6_Witness ==
    /\ last.op = "add" /\ last.score \notin 0..100
    /\ last.error = ScoreError
    /\ GenericFor(registry, last.entity) # EmptyBag

\* C7 as stated: add_custom_recognizer, whatever its entity name and
\* language, leaves in the registry every recognizer that is not a generic
\* pattern recognizer.
C7_BuiltInsKept ==
    [][(last.op = "idle" /\ last'.op = "add") =>
          \A r \in BagToSet(registry) :
              r.kind # GenericPattern => CopiesIn(r, registry') = CopiesIn(r, registry)]_vars

\* C8 as stated: after a successful add_custom_recognizer the registry holds
\* a pattern recognizer for the entity name that is registered for the
\* language of the call.
C8_RegisteredForLanguage ==
    Returned("add") =>
        \E r \in BagToSet(GenericFor(registry, last.entity)) :
            r.regex = last.regex /\ r.lang = last.lang

\* C9: after add_custom_recognizer(E, pattern) has succeeded (the score its
\* default, or any score above 0.0), analyze finds recognizers to run and
\* what it returns reports a match of entity type E on every text that
\* holds a span the pattern matches.
C9_CustomRecognizerDetects ==
    (Returned("add") /\ last.score > 0) =>
        \A t \in Texts :
            FindIter(t, last.regex, 0) # {} =>
                LET a == Analyze(registry, t, NoFilter, "en")
                IN /\ a.error # NoRecognizersError
                   /\ a.error = NoError =>
                          \E i \in 1..Len(a.results) : a.results[i].entity_type = last.entity

\* C9's case: the call of the test, with the default score and language, for
\* an entity name no other recognizer emits.
C9_Witness ==
    /\ Returned("add") /\ last.score = DefaultScore /\ last.lang = "en"
    /\ last.entity = "ORDER_ID"
    /\ \E t \in Texts : FindIter(t, last.regex, 0) # {}

\* The spans the recognizers of a language report on a text.
ReportedSpans(reg, text, language) ==
    {<<r.start, r.end>> :
        r \in UNION {RecognizerAnalyze(rec, text) :
                        rec \in {x \in BagToSet(reg) : x.lang = language}}}

\* The spans of a set that no other span of the set contains.
Outermost(S) ==
    {s \in S : ~\E t \in S : t # s /\ t[1] <= s[1] /\ s[2] <= t[2]}

\* The text with every position of a span taken out and, where an outermost
\* span starts, the digest of that span's text put in, from offset k on.
RECURSIVE HashedFrom(_, _, _)
HashedFrom(text, S, k) ==
    IF k >= Len(text) THEN <<>>
    ELSE LET starting == {s \in Outermost(S) : s[1] = k}
             here == IF starting # {}
                     THEN Sha256Hex(Slice(text, k, (CHOOSE s \in starting : TRUE)[2]))
                     ELSE IF \E s \in S : s[1] <= k /\ k < s[2] THEN <<>>
                     ELSE <<text[k + 1]>>
         IN here \o HashedFrom(text, S, k + 1)

\* C10: deidentify looks for every entity type: the span any recognizer of
\* the language reports, a custom one included, is transformed in the text
\* returned, '*' throughout with mask, replaced by digests with hash.
C10_EveryRecognizerCounts ==
    Returned("deidentify") =>
        LET S == ReportedSpans(registry, last.text, last.lang)
        IN IF last.strategy = "mask"
           THEN \A s \in S : Slice(last.out, s[1], s[2]) = Stars(s[2] - s[1])
           ELSE last.out = HashedFrom(last.text, S, 0)

\* C10's case: a hash call on a text in which only a custom recognizer,
\* registered earlier, reports a span.
C10_Witness ==
    /\ Returned("deidentify") /\ last.strategy = "hash"
    /\ \E rec \in BagToSet(registry) :
           /\ rec.kind = GenericPattern /\ rec.lang = last.lang
           /\ RecognizerAnalyze(rec, last.text) # {}
           /\ \A other \in BagToSet(registry) :
                  other # rec => RecognizerAnalyze(other, last.text) = {}

\* The keys under which a record holds free text.
FreeTextKeys ==
    {"symptoms", "physical_activity", "mental_exercises", "mental_health",
     "previous_tests", "summary", "comments"}

\* What deidentify, with its default strategy and language, makes of a text.
Masked(reg, text) == Deidentify(reg, text, "mask", "en").out

\* The mappings of a record at any depth: the mapping at Root and those
\* that are the value of a key of one of them.
RECURSIVE MappingsOf(_, _)
MappingsOf(objects, seen) ==
    LET more == {objects[a][k].v :
                    <<a, k>> \in {p \in seen \X {KeyOrder[i] : i \in 1..Len(KeyOrder)} :
                                     /\ p[2] \in DOMAIN objects[p[1]]
                                     /\ objects[p[1]][p[2]].t = "dict"}}
    IN IF more \subseteq seen THEN seen ELSE MappingsOf(objects, seen \cup more)

\* C11: deidentify_patient_record replaces, in the mappings of every depth,
\* each string under a free-text key by what deidentify makes of it, and
\* leaves every other field as it was: a string under another key, a
\* number, None, a list, and the mappings themselves.
C11_RecordWalk ==
    Returned("record") =>
        /\ DOMAIN last.after = DOMAIN last.record
        /\ \A a \in MappingsOf(last.record, {Root}) :
               /\ DOMAIN last.after[a] = DOMAIN last.record[a]
               /\ \A k \in DOMAIN last.record[a] :
                      LET value == last.record[a][k]
                      IN IF value.t = "str" /\ k \in FreeTextKeys
                         THEN last.after[a][k] = Str(Masked(registry, value.v))
                         ELSE last.after[a][k] = value

\* C11's case: a record whose free text two mappings down is replaced while
\* a string with the same text under another key stays.
C11_Witness ==
    /\ Returned("record")
    /\ last.after[3]["comments"] # last.record[3]["comments"]
    /\ last.record[1]["notes"] = last.record[3]["comments"]
    /\ last.after[1]["notes"] = last.record[1]["notes"]
    /\ last.after[2]["comments"] = last.record[2]["comments"]
    /\ last.record[2]["comments"].t = "list"

\* C12: deidentify_patient_record returns the object it was given, and that
\* object and the mappings it refers to, not copies of them, hold the
\* de-identified text after the call.
C12_InPlace ==
    Returned("record") =>
        /\ last.ret = Root
        /\ DOMAIN last.after = DOMAIN last.record
        /\ \A a \in DOMAIN last.record :
               ("comments" \in DOMAIN last.record[a] /\ last.record[a]["comments"].t = "str") =>
                   last.after[a]["comments"] = Str(Masked(registry, last.record[a]["comments"].v))

\* C12's case: the call has changed a nested mapping of the record handed in.
C12_Witness ==
    /\ Returned("record")
    /\ last.ret = Root
    /\ last.record[Root]["patient"] = last.after[Root]["patient"]
    /\ last.after[last.after[Root]["patient"].v] # last.record[last.record[Root]["patient"].v]

\* The spans of a list of results.
SpansOf(results) == {<<results[i].start, results[i].end>> : i \in 1..Len(results)}

\* C13: with the hash strategy the text of every match that analyze reports,
\* of whatever entity type, is taken out of the output and the SHA-256
\* digest of the matched text stands where each outermost match began.
C13_HashEveryMatch ==
    (Returned("deidentify") /\ last.strategy = "hash") =>
        last.out = HashedFrom(last.text, SpansOf(last.results), 0)

\* C13's case: matches of two entity types, one of them of a custom
\* recognizer, neither within the other, both replaced by a digest.
C13_Witness ==
    /\ Returned("deidentify") /\ last.strategy = "hash"
    /\ \E i, j \in 1..Len(last.results) :
           /\ last.results[i].entity_type = "ORDER_ID"
           /\ last.results[j].entity_type = "PERSON"
           /\ last.results[i].end <= last.results[j].start
    /\ Len(last.out) >= 128

\* The orders in which Python's sort can leave a set of results: results
\* equal on the sort key come in the order of the recognizers, which
\* list(set(...)) does not fix.
RECURSIVE SortOrders(_)
SortOrders(S) ==
    IF S = {} THEN {<<>>}
    ELSE UNION {{<<m>> \o rest : rest \in SortOrders(S \ {m})} :
                   m \in {x \in S : \A y \in S : KeyLeq(x, y)}}

\* The results the recognizers of a language report on a text.
RawResults(reg, text, language) ==
    UNION {RecognizerAnalyze(rec, text) :
              rec \in {x \in BagToSet(reg) : x.lang = language}}

\* C14: the text deidentify returns with the hash strategy is a function of
\* the text, the language and the registry: in whatever order the
\* recognizers' results reach the anonymizer, the output is the same.
C14_HashDeterministic ==
    (Returned("deidentify") /\ last.strategy = "hash") =>
        \A o \in SortOrders(RawResults(registry, last.text, last.lang)) :
            DeidentifyText(last.text, "hash", RemoveDuplicates(o, <<>>)) = last.out

\* C14's case: two recognizers report the same span with the same score
\* under different entity types, so the results have more than one order.
C14_Witness ==
    /\ Returned("deidentify") /\ last.strategy = "hash"
    /\ Cardinality(SortOrders(RawResults(registry, last.text, last.lang))) > 1
    /\ last.out # last.text

AllReported(results, raw) ==
    \A r \in raw :
        \E i \in 1..Len(results) :
            ContainedIn(r, results[i]) /\ r.entity_type = results[i].entity_type

\* C16 as stated: analyze returns only matches of the entity types of S when
\* S is given, and the matches of every recognizer of the language when
\* entities is absent.
C16_FilterWheneverGiven ==
    Returned("analyze") =>
        IF last.entities # NoFilter
        THEN \A i \in 1..Len(last.results) : last.results[i].entity_type \in last.entities[1]
        ELSE AllReported(last.results, RawResults(registry, last.text, last.lang))

\* What holds of C16: analyze returns only matches of the entity types of S
\* when S is given and not empty; when entities is absent or the empty list
\* it returns the matches of every recognizer of the language.
C16_FilterUnlessEmpty ==
    Returned("analyze") =>
        /\ \A i \in 1..Len(last.results) :
               last.results[i] \in RawResults(registry, last.text, last.lang)
        /\ IF last.entities # NoFilter /\ last.entities[1] # {}
           THEN \A i \in 1..Len(last.results) :
                    last.results[i].entity_type \in last.entities[1]
           ELSE AllReported(last.results, RawResults(registry, last.text, last.lang))

\* ---------------------------------------------------------------------
\* A regular expression that does not compile
\* ---------------------------------------------------------------------

\* The call the step makes registers a regex that does not compile, with a
\* score the check of lines 41-42 accepts, for a language the registry
\* serves.
AddsUncompilable ==
    /\ last.op = "idle" /\ last'.op = "add"
    /\ last'.regex \in Uncompilable
    /\ last'.error \notin {ScoreError, NoRecognizersError}

\* C17: add_custom_recognizer with a regex that does not compile raises the
\* pattern-compile error and leaves the registry as it was, and no later
\* analysis (analyze, deidentify, deidentify_patient_record) raises it.
C17_FailsAtRegistration ==
    [][/\ AddsUncompilable =>
             (last'.error = PatternCompileError /\ registry' = registry)
       /\ last'.op \in {"analyze", "deidentify", "record"} =>
             last'.error # PatternCompileError]_vars

\* What holds of C17 where Pattern checks its regex: the call raises, and
\* the registry is the list of line 63.
C17_RaisedAfterReplacing ==
    [][(AddsUncompilable /\ last'.error = PatternCompileError) =>
           registry' = RecognizersToKeep(GetRecognizers(registry, last'.lang, NoFilter),
                                         last'.entity)]_vars

\* What holds of C17 where the recognizer compiles at its first analysis:
\* the call returns and every analysis that runs the recognizer raises.
C17_RaisedAtAnalysis ==
    (last.op = "analyze" /\ last.lang = "en" /\ AllFields(last.entities)
        /\ \E r \in BagToSet(registry) : ~Compiles(r.regex))
    => last.error = PatternCompileError

\* ---------------------------------------------------------------------
\* exams_post and PatientRepository
\* ---------------------------------------------------------------------

\* The record exams_post has built from the patient repo.get answers with
\* and the form the step submits.
BuiltByStep ==
    BuiltRecord(patients[FirstIndex(patients, last'.id)], last'.submitted.selected,
                last'.submitted.custom, last'.submitted.form)

\* C18: what an exams_post that returns has written with repo.update, in
\* the list and in the file, is the record it built with every free text
\* de-identified once and every other field as built.
C18_PersistsDeidentified ==
    [][(last.op = "idle" /\ last'.op = "exams_post" /\ last'.error = NoError) =>
           LET i == FirstIndex(patients, last'.id)
               built == BuiltByStep
           IN /\ last'.written
              /\ file'[i] = patients'[i]
              /\ DOMAIN file'[i] = DOMAIN built
              /\ \A a \in DOMAIN built :
                     /\ DOMAIN file'[i][a] = DOMAIN built[a]
                     /\ \A k \in DOMAIN built[a] :
                            file'[i][a][k] =
                               IF built[a][k].t = "str" /\ k \in FreeTextKeys
                               THEN Str(Masked(registry, built[a][k].v))
                               ELSE built[a][k]]_vars

\* C18's case: an exams_post has returned, and the comment of the form and
\* the symptoms of the earlier steps are in the file with their names
\* masked.
C18_Witness ==
    /\ Returned("exams_post") /\ last.written
    /\ last.submitted = Submission(<<"exam">>, <<>>, [comments |-> <<"b">>])
    /\ \E i \in 1..Len(file) :
           /\ UuidOf(file[i]) = last.id
           /\ file[i][RatingsAt]["comments"] = Str(<<"*">>)
           /\ file[i][3]["symptoms"] = Str(<<"a", "*">>)

\* C19: a call of analyze, of deidentify (returning, or raising for an
\* unsupported strategy or anything else) or of deidentify_patient_record
\* leaves the registry's list of recognizers as it was; of the operations
\* of Deidentifier only add_custom_recognizer changes it.
C19_OnlyAddMutates ==
    [][/\ (last.op = "idle" /\ last'.op \in {"analyze", "deidentify", "record"}) =>
             registry' = registry
       /\ (last.op = "idle" /\ last'.op # "idle" /\ registry' # registry) =>
             last'.op = "add"]_vars

\* C19's case: a registry serving two languages with a custom recognizer in
\* it, which storing the list of one language would change, after a
\* deidentify that replaced a match.
C19_Witness ==
    /\ Returned("deidentify") /\ last.out # last.text
    /\ registered # {}
    /\ \E r \in BagToSet(registry) : r.lang = "es"
    /\ \E r \in BagToSet(registry) : r.lang = "en"

\* C20: once delete(id) has returned, whatever the repository held, get(id)
\* returns None: no patient with that uuid is left in the list.
C20_DeletedIsGone ==
    last.op = "delete" => RepoGet(patients, last.id) = <<>>

\* ---------------------------------------------------------------------
\* A recognizer that raises
\* ---------------------------------------------------------------------

\* The recognizers an analyze call has run.
RanFor(call) == BagToSet(GetRecognizers(registry, call.lang, call.entities))

\* C21: an analyze that runs a recognizer which raises (its regex does not
\* compile) still returns, with the deduplicated matches of all the other
\* recognizers it ran.
C21_FaultIsolated ==
    (last.op = "analyze" /\ RanFor(last) # {}) =>
        /\ last.error = NoError
        /\ last.results =
              RemoveDuplicates(
                  SortResults(UNION {RecognizerAnalyze(r, last.text) :
                                        r \in {x \in RanFor(last) : Compiles(x.regex)}}),
                  <<>>)

\* What holds of C21: an analyze that runs a recognizer which raises
\* raises itself and returns no match, whatever the others found.
C21_FaultAborts ==
    (last.op = "analyze" /\ \E r \in RanFor(last) : ~Compiles(r.regex)) =>
        (last.error = PatternCompileError /\ last.results = <<>>)

\* ---------------------------------------------------------------------
\* The mask strategy, position by position
\* ---------------------------------------------------------------------

\* Position i (from 1) of the text lies in the span of a match.
InSomeSpan(results, i) ==
    \E k \in 1..Len(results) : results[k].start < i /\ i <= results[k].end

\* C22: deidentify with mask applies the matches in descending order of
\* their ends, and what it returns is, position by position, '*' where
\* the position lies in the span of a match analyze reported on the
\* original text and the original character elsewhere, also when matches
\* overlap, nest or touch.
C22_MaskPositionwise ==
    (Returned("deidentify") /\ last.strategy = "mask") =>
        LET sorted == SortByEndDesc(Matches)
        IN /\ Len(sorted) = Len(Matches)
           /\ \A i, j \in 1..Len(sorted) : i < j => sorted[i].end >= sorted[j].end
           /\ Len(last.out) = Len(last.text)
           /\ \A i \in 1..Len(last.text) :
                  last.out[i] = IF InSomeSpan(Matches, i) THEN "*" ELSE last.text[i]

\* C22's case: a mask call on a text with a match inside another, two
\* matches that touch, matches analyze did not report in descending order
\* of their ends, and a character other than '*' outside every match.
C22_Witness ==
    /\ Returned("deidentify") /\ last.strategy = "mask"
    /\ \E i, j \in 1..Len(Matches) :
           /\ i # j /\ ContainedIn(Matches[i], Matches[j])
    /\ \E i, j \in 1..Len(Matches) : Matches[i].end = Matches[j].start
    /\ \E i, j \in 1..Len(Matches) : i < j /\ Matches[i].end < Matches[j].end
    /\ \E i \in 1..Len(last.text) :
           ~InSomeSpan(Matches, i) /\ last.text[i] # "*" /\ last.out[i] = last.text[i]

\* ---------------------------------------------------------------------
\* What add_custom_recognizer leaves in the registry
\* ---------------------------------------------------------------------

\* C23: add_custom_recognizer(E, ..., language=L) leaves in the registry
\* every generic pattern recognizer of another entity name and every
\* recognizer of a language other than L.
C23_OthersKept ==
    [][(last.op = "idle" /\ last'.op = "add") =>
          \A r \in BagToSet(registry) :
              (r.lang # last'.lang \/ (r.kind = GenericPattern /\ r.entity # last'.entity))
                  => CopiesIn(r, registry') >= CopiesIn(r, registry)]_vars

\* What holds of C23: a call that gets as far as line 63 leaves, of the
\* recognizers there were, those of language L that are not generic
\* pattern recognizers for E, and no other.
C23_KeptOfLanguage ==
    [][(last.op = "idle" /\ last'.op = "add"
           /\ last'.error \notin {ScoreError, NoRecognizersError}) =>
          \A r \in BagToSet(registry) :
              IF r.lang = last'.lang /\ ~(r.kind = GenericPattern /\ r.entity = last'.entity)
              THEN CopiesIn(r, registry') >= CopiesIn(r, registry)
              ELSE CopiesIn(r, registry') > 0 =>
                       r = NewPatternRecognizer(last'.entity, last'.regex, last'.score,
                                                last'.lang)]_vars

\* ---------------------------------------------------------------------
\* Lists in a patient record
\* ---------------------------------------------------------------------

\* The mappings that are elements of a list of a mapping of the record.
ListedMappings(objects) ==
    LET lists == {objects[p[1]][p[2]].v :
                     p \in {q \in MappingsOf(objects, {Root})
                                     \X {KeyOrder[i] : i \in 1..Len(KeyOrder)} :
                                /\ q[2] \in DOMAIN objects[q[1]]
                                /\ objects[q[1]][q[2]].t = "list"}}
    IN UNION {{l[j].v : j \in {n \in 1..Len(l) : l[n].t = "dict"}} : l \in lists}

\* C24: deidentify_patient_record leaves every list as it was, whatever
\* its key, and every mapping that is an element of a list too.
C24_ListsUntouched ==
    Returned("record") =>
        /\ \A a \in MappingsOf(last.record, {Root}) :
               \A k \in DOMAIN last.record[a] :
                   last.record[a][k].t = "list" => last.after[a][k] = last.record[a][k]
        /\ \A a \in ListedMappings(last.record) \ MappingsOf(last.record, {Root}) :
               last.after[a] = last.record[a]

\* C24's case: a record with a list of a string under comments and a list
\* of a mapping that holds a summary, both texts with a name in them that
\* the call has masked where it stands under symptoms.
C24_Witness ==
    /\ Returned("record")
    /\ last.record[2]["comments"] = List(<<Str(<<"b">>)>>)
    /\ last.after[2]["comments"] = List(<<Str(<<"b">>)>>)
    /\ last.record[2]["previous_tests"] = List(<<Ref(4)>>)
    /\ last.record[4]["summary"] = last.record[Root]["symptoms"]
    /\ last.after[Root]["symptoms"] # last.record[Root]["symptoms"]
    /\ last.after[4]["summary"] = last.record[4]["summary"]

\* ---------------------------------------------------------------------
\* add_custom_recognizer next to a concurrent analyze
\* ---------------------------------------------------------------------

\* The recognizers of the registry as the call in pending found it.
RegistryBefore == pending[1].before

\* The entity name is reported by a recognizer that is no generic pattern
\* recognizer.
BuiltInFor(entity_name) ==
    \E r \in BagToSet(registry) : r.kind # GenericPattern /\ r.entity = entity_name

\* C25: between line 63 and line 72 of add_custom_recognizer(E, ...) the
\* registry holds no pattern recognizer for E, the one there was included,
\* and an analyze that runs then reports no match of E unless a built-in
\* recognizer reports E.
C25_GapWithoutRecognizer ==
    pending # <<>> =>
        /\ GenericFor(registry, pending[1].entity) = EmptyBag
        /\ (Returned("analyze") /\ ~BuiltInFor(pending[1].entity)) =>
               \A i \in 1..Len(last.results) :
                   last.results[i].entity_type # pending[1].entity

\* C25's case: E is registered anew, and an analyze that ran between line
\* 63 and line 72 reported no match of E on a text with a span that the
\* old recognizer and the new one both match.
C25_Witness ==
    /\ pending # <<>> /\ Returned("analyze")
    /\ \E old \in BagToSet(GenericFor(RegistryBefore, pending[1].entity)) :
           /\ old.score > 0 /\ old.lang = last.lang
           /\ FindIter(last.text, old.regex, 0) # {}
           /\ FindIter(last.text, old.regex, 0) = FindIter(last.text, pending[1].regex, 0)
    /\ pending[1].score > 0
    /\ \A i \in 1..Len(last.results) : last.results[i].entity_type # pending[1].entity

\* ---------------------------------------------------------------------
\* The consultation wizard
\* ---------------------------------------------------------------------


\* The step makes a POST /wearable with no file for a patient the
\* gatekeeper sends to the wearable step.
PostsNoFile ==
    /\ last.op = "idle" /\ last'.op = "wearable_post" /\ last'.upload = "none"
    /\ GetNextStep(Stored(file, last'.id)) = "wearable"

\* C26: after a POST /wearable with no file the gatekeeper, which the
\* handler redirects to, sends the patient on to the diagnosis step.
C26_ContinuesWithoutFile ==
    [][PostsNoFile => GetNextStep(Stored(file', last'.id)) = "diagnosis"]_vars

\* What holds of C26: the handler stores nothing, the gatekeeper sends the
\* patient to the wearable step again, and no record gets past that step
\* without wearable data.
C26_StaysAtWearable ==
    [][PostsNoFile =>
          (file' = file /\ GetNextStep(Stored(file', last'.id)) = "wearable")]_vars

\* No stored record is past the wearable step without wearable data.
C26_NoneCompleteWithoutData ==
    \A i \in 1..Len(file) :
        StepIndex(GetNextStep(file[i])) > StepIndex("wearable") =>
            "wearable_data" \in DOMAIN PatientDataOf(file[i])

\* The field whose presence marks the i-th step as done, and whether a
\* record holds it: the first six in patient['patient'], the last two in
\* the record itself.
Markers ==
    <<"age", "diet", "symptoms", "mental_health", "previous_tests", "wearable_data",
      "selected_diagnoses", "selected_exams">>

Done(patient, i) ==
    IF i <= 6 THEN Markers[i] \in DOMAIN PatientDataOf(patient)
    ELSE Markers[i] \in DOMAIN patient[Root]

\* The handler that stores the data of the i-th step.
PostOf ==
    <<"demographics_post", "lifestyle_post", "symptoms_post", "mental_post",
      "tests_post", "wearable_post", "diagnosis_post", "exams_post">>

\* The place in the wizard of the patient with the id, 0 before the
\* consultation has started.
PlaceIn(list, patient_id) ==
    IF FirstIndex(list, patient_id) = 0 THEN 0
    ELSE StepIndex(GetNextStep(Stored(list, patient_id)))

\* The step the gatekeeper names for a stored record is the first, in the
\* order demographics, lifestyle, symptoms, mental, tests, wearable,
\* diagnosis, exams, whose field is missing, and 'complete' when none is.
FirstMissingStep ==
    \A i \in 1..Len(file) :
        /\ \A j \in 1..(StepIndex(GetNextStep(file[i])) - 1) : Done(file[i], j)
        /\ GetNextStep(file[i]) # "complete" =>
               ~Done(file[i], StepIndex(GetNextStep(file[i])))

\* No request takes the record of a patient back to an earlier step, and
\* the step changes only to the one right after it, by the POST handler of
\* the step the patient was at.
StepByStep ==
    \A id \in Uuids :
         (PlaceIn(file, id) > 0 /\ last'.op # "delete_patient") =>
             /\ PlaceIn(file', id) >= PlaceIn(file, id)
             /\ PlaceIn(file', id) # PlaceIn(file, id) =>
                    /\ PlaceIn(file', id) = PlaceIn(file, id) + 1
                    /\ last'.op = PostOf[PlaceIn(file, id)]
                    /\ last'.id = id

C28_ShapeKept ==
    last.op = "record" =>
        /\ DOMAIN last.after = DOMAIN last.record
        /\ \A a \in DOMAIN last.record :
               /\ DOMAIN last.after[a] = DOMAIN last.record[a]
               /\ \A k \in DOMAIN last.record[a] :
                      /\ last.after[a][k].t = last.record[a][k].t
                      /\ last.record[a][k].t = "str" =>
                             Len(last.after[a][k].v) = Len(last.record[a][k].v)

\* C28's case: the call has replaced a string of two characters, one of
\* them masked, in a nested mapping.
C28_Witness ==
    /\ Returned("record")
    /\ last.record[3]["comments"] = Str(<<"a", "b">>)
    /\ last.after[3]["comments"] = Str(<<"a", "*">>)

\* ---------------------------------------------------------------------
\* Free text in the stored records
\* ---------------------------------------------------------------------

\* Every string under a free-text key, in the mappings of any depth of the
\* record, is as deidentify leaves it.
Deidentified(reg, record) ==
    \A a \in MappingsOf(record, {Root}) :
        \A k \in DOMAIN record[a] \cap FreeTextKeys :
            record[a][k].t = "str" => Masked(reg, record[a][k].v) = record[a][k].v

\* C29: whatever requests the handlers of the wizard have served, every
\* record in the file whose next step is 'complete' holds its free text
\* de-identified.
C29_CompleteIsDeidentified ==
    \A i \in 1..Len(file) :
        GetNextStep(file[i]) = "complete" => Deidentified(registry, file[i])

\* What holds of C29: the record is de-identified when exams_post has just
\* written it; a request that comes after it stores what it is given.
C29_DeidentifiedByExamsPost ==
    (Returned("exams_post") /\ last.written) =>
        Deidentified(registry, Stored(file, last.id))

\* ---------------------------------------------------------------------
\* Requests served at the same time
\* ---------------------------------------------------------------------

\* The text the request q has put in the record of its patient is in the
\* record the list holds.
HoldsChangeOf(list, q) ==
    /\ FirstIndex(list, q.id) # 0
    /\ LET data == PatientDataOf(Stored(list, q.id))
       IN "symptoms" \in DOMAIN data /\ data["symptoms"] = Str(q.text)

\* Two requests have been served, each has changed and written a patient,
\* and the patients are different.
BothUpdated(v, w) ==
    /\ v # w
    /\ requests[v].pc = "done" /\ requests[w].pc = "done"
    /\ requests[v].op # "start" /\ requests[w].op # "start"
    /\ requests[v].written /\ requests[w].written
    /\ requests[v].id # requests[w].id

\* C30: when two requests, each with a repository of its own, have changed
\* different patients and called update, the file holds the change of one
\* and of the other, however the two were interleaved.
C30_BothChangesPersisted ==
    \A v, w \in Workers :
        BothUpdated(v, w) =>
            HoldsChangeOf(file, requests[v]) /\ HoldsChangeOf(file, requests[w])

\* What holds of C30: the file is the list of the request that wrote last,
\* which holds that request's own change.
C30_LastWriterWins ==
    [][\A w \in Workers :
          (requests[w].pc = "loaded" /\ requests'[w].pc = "done" /\ requests'[w].written
           /\ requests'[w].op # "start") =>
              /\ file' = requests'[w].patients
              /\ HoldsChangeOf(file', requests'[w])]_vars

\* A change is lost: two requests have updated different patients and the
\* file lacks the change of one of them.
C30_LostUpdate ==
    \E v, w \in Workers :
        /\ BothUpdated(v, w)
        /\ ~HoldsChangeOf(file, requests[v])
        /\ HoldsChangeOf(file, requests[w])
====
